---- MODULE Spec2Model ----
(***************************************************************************)
(* mb_grep: a multithreaded grep.  main() parses the command line, builds  *)
(* a matcher and a ThreadPool, walks a directory tree and submits one      *)
(* search_file task per surviving file; the workers of the pool execute    *)
(* the tasks and write the matching lines under output_mutex.              *)
(*                                                                         *)
(* Threads: Main (0) and the workers 1..num_threads.  pc[t] is the place   *)
(* of thread t in its code.                                                *)
(***************************************************************************)
EXTENDS Integers, Sequences, FiniteSets, TLC

\* ------------------------------------------------------------- bounds ----
MaxHw == 4            \* largest std::thread::hardware_concurrency() tried
MaxEntries == 2       \* largest number of directory entries in the tree
MaxQueryLen == 2      \* longest query given on the command line
MaxLineLen == 3       \* longest line handed to matcher.match
SizeBits == 6         \* width of size_t in the arithmetic of get_threads_number

\* ------------------------------------------------- program constants ----
BufSize == 512        \* char buffer[512] of is_binary_file
reservedThreads == 2  \* get_threads_number
minimalArgCount == 3  \* main

Main == 0
NoThread == -1
NoTask == 0

Range(f) == {f[i] : i \in DOMAIN f}
Max(a, b) == IF a >= b THEN a ELSE b
Min(a, b) == IF a <= b THEN a ELSE b

\* ----------------------------------------------------- the file tree ----
\* A directory entry: whether it is a regular file, its extension, its size
\* in bytes, the position of its first NUL byte (0: none), whether it can be
\* opened for reading, and for each of its lines whether matcher.match(line)
\* is true.  throws: the task scanning it raises an exception (bad_alloc,
\* regex_error at match time); spawns: the task calls pool.submit itself.
Entry(reg, e, sz, nul, op, th, sp, ls) ==
    [regular |-> reg, ext |-> e, size |-> sz, nul_pos |-> nul,
     openable |-> op, throws |-> th, spawns |-> sp, lines |-> ls]

DirEntry == Entry(FALSE, "",     0,   0,   TRUE,  FALSE, FALSE, <<>>)
LogFile == Entry(TRUE,  ".log", 40,  0,   TRUE,  FALSE, FALSE, <<TRUE, TRUE>>)
TxtFile == Entry(TRUE,  ".txt", 40,  0,   TRUE,  FALSE, FALSE, <<FALSE, TRUE>>)
BinFile == Entry(TRUE,  ".log", 600, 512, TRUE,  FALSE, FALSE, <<TRUE>>)
BinTxt == Entry(TRUE,  ".txt", 8,   1,   TRUE,  FALSE, FALSE, <<TRUE>>)
LateNul == Entry(TRUE,  ".log", 600, 513, TRUE,  FALSE, FALSE, <<TRUE>>)
Locked == Entry(TRUE,  ".log", 40,  0,   FALSE, FALSE, FALSE, <<TRUE>>)
LockedBin == Entry(TRUE,  ".log", 40,  1,   FALSE, FALSE, FALSE, <<TRUE>>)
Thrower == Entry(TRUE,  ".log", 40,  0,   TRUE,  TRUE,  FALSE, <<TRUE>>)
Spawner == Entry(TRUE,  ".log", 40,  0,   TRUE,  FALSE, TRUE,  <<>>)
Child == Entry(TRUE,  ".log", 40,  0,   TRUE,  FALSE, FALSE, <<TRUE>>)

\* A sample listing of a directory, and the trees tried: every run of at
\* most MaxEntries consecutive entries of it.
Listing == <<BinFile, LogFile, TxtFile, Thrower, LateNul, LogFile, Locked,
             DirEntry, LockedBin, BinTxt>>
\* The tasks of a client of the pool whose tasks may submit tasks themselves.
PoolListing == <<Spawner, LogFile, Thrower, Spawner, Locked, DirEntry>>

SeqsUpTo(S, n) == UNION {[1..k -> S] : k \in 0..n}
Runs(listing, n) ==
    {r \in {SubSeq(listing, i, j) : i \in 1..Len(listing), j \in 0..Len(listing)} :
        Len(r) <= n}

Trees == Runs(Listing, MaxEntries)
PoolTrees == Runs(PoolListing, MaxEntries)

NoExt == "none"

\* -------------------------------------------------- the command line ----
\* argv[1] is the program name, argv[2] the query (a sequence of
\* characters), argv[3] the directory, and the rest are flags.
Chars == {"a", "+", "("}
MetaChars == {".", "^", "$", "*", "+", "?", "{", "}", "[", "]", "\\", "|", "(", ")"}
Queries == SeqsUpTo(Chars, MaxQueryLen)

Flag(n, v) == [name |-> n, value |-> v]
RegexFlag == Flag("--regex", "")
IgnoreCaseFlag == Flag("--ignore-case", "")
ExtFlag == Flag("--ext=", ".log")
FlagLists == {<<>>, <<RegexFlag>>, <<ExtFlag>>, <<RegexFlag, ExtFlag>>,
              <<ExtFlag, RegexFlag>>, <<IgnoreCaseFlag>>}

Argvs == {<<"mb_grep">>}
         \cup {<<"mb_grep", q>> : q \in Queries}
         \cup {<<"mb_grep", q, "dir">> \o f : q \in Queries, f \in FlagLists}

\* extract_arguments: the loop over argv[3..argc-1] (0-based), here the
\* elements 4..Len(av).
RECURSIVE parse_flags(_, _, _)
parse_flags(av, i, o) ==
    IF i > Len(av) THEN o
    ELSE LET a == av[i]
             o2 == IF a.name = "--regex" THEN [o EXCEPT !.use_regex = TRUE]
                   ELSE IF a.name = "--ignore-case" THEN [o EXCEPT !.ignore_case = TRUE]
                   ELSE IF a.name = "--ext=" THEN [o EXCEPT !.file_extension = a.value]
                   ELSE o
         IN  parse_flags(av, i + 1, o2)

extract_arguments(av) ==
    parse_flags(av, 4, [query |-> av[2], use_regex |-> FALSE,
                        ignore_case |-> FALSE, file_extension |-> NoExt])

NoOptions == [query |-> <<>>, use_regex |-> FALSE, ignore_case |-> FALSE,
              file_extension |-> NoExt]

\* Mutant: only the first character is looked at (regex_match in place of
\* regex_search on a one-character class).
contains_regex_chars_FirstOnly(query) == Len(query) >= 1 /\ query[1] \in MetaChars

\* contains_regex_chars: regex_search of the class [.^$*+?{}\[\]\\|()].
contains_regex_chars(query) == \E i \in 1..Len(query) : query[i] \in MetaChars

\* Whether std::regex(query, ECMAScript) constructs without regex_error, for
\* patterns over Chars: "(" is never closed, and "+" needs an atom before it.
RegexConstructs(query) ==
    \A i \in 1..Len(query) :
        /\ query[i] # "("
        /\ (query[i] = "+" => (i > 1 /\ query[i - 1] = "a"))

\* Mutant: the whole file is read, not its first 512 bytes.
is_binary_file_WholeFile(e) ==
    LET bytesRead == IF e.openable THEN e.size ELSE 0
    IN  e.nul_pos >= 1 /\ e.nul_pos <= bytesRead

\* is_binary_file: reads up to 512 bytes, true iff one of the bytes read is
\* NUL.  A file that cannot be opened yields gcount() = 0, hence false.
is_binary_file(e) ==
    LET bytesRead == IF e.openable THEN Min(e.size, BufSize) ELSE 0
    IN  e.nul_pos >= 1 /\ e.nul_pos <= bytesRead

\* The three filters of walk_directory's loop body.
Survives(e, file_extension) ==
    /\ e.regular
    /\ ~is_binary_file(e)
    /\ ~(file_extension # NoExt /\ file_extension # e.ext)

\* The values of a size_t, and its subtraction, which wraps around.
SizeRange == 2 ^ SizeBits
size_t_minus(a, b) == (a - b) % SizeRange

\* Mutant: the subtraction is made whatever num_threads is.
get_threads_number_Unguarded(hc) ==
    Max(1, size_t_minus(hc, reservedThreads))

\* get_threads_number on size_t: the subtraction is only evaluated when
\* num_threads > reservedThreads.
get_threads_number(hc) ==
    LET threads == hc
    IN  Max(1, IF threads > reservedThreads
               THEN size_t_minus(threads, reservedThreads) ELSE 1)

\* ---------------------------------------------------------- matchers ----
\* The characters of the queries and lines the matcher is tried on; 0xE9 is
\* a byte above 0x7F.
MatchChars == {"A", "a", "B", "0xE9"}

\* tolower in the "C" locale (main never calls setlocale): the letters A-Z
\* are mapped to a-z and every other character is returned as it is.  For a
\* byte above 0x7F the argument is a negative int, outside tolower's
\* domain; the C libraries look it up in a table that covers -128..255, or
\* compare it with 'A'..'Z', and return it unchanged.
tolower(c) ==
    CASE c = "A" -> "a"
      [] c = "B" -> "b"
      [] OTHER -> c

\* std::ranges::transform(s, s.begin(), tolower)
transform_tolower(s) == [i \in 1..Len(s) |-> tolower(s[i])]

\* s.find(q) != std::string::npos
find(s, q) ==
    \E pos \in 0..(Len(s) - Len(q)) : SubSeq(s, pos + 1, pos + Len(q)) = q

NoMatcher == [kind |-> "none", query_ |-> <<>>, ignore_case_ |-> FALSE]

\* RegexMatcher: pattern_ = std::regex(query, flags).
RegexMatcher(query, ignore_case) ==
    [kind |-> "regex", query_ |-> query, ignore_case_ |-> ignore_case]

\* Mutant: the constructor keeps the query as it was given.
SubstringMatcher_NoFold(query, ignore_case) ==
    [kind |-> "substring", query_ |-> query, ignore_case_ |-> ignore_case]

\* SubstringMatcher's constructor: the query is lowered when ignore_case.
SubstringMatcher(query, ignore_case) ==
    [kind |-> "substring",
     query_ |-> IF ignore_case THEN transform_tolower(query) ELSE query,
     ignore_case_ |-> ignore_case]

\* SubstringMatcher::match
match(m, l) ==
    IF m.ignore_case_
    THEN LET lower_line == transform_tolower(l)
         IN  find(lower_line, m.query_)
    ELSE find(l, m.query_)

create_matcher(o) ==
    IF o.use_regex THEN RegexMatcher(o.query, o.ignore_case)
    ELSE SubstringMatcher(o.query, o.ignore_case)

\* ------------------------------------------------------------- state ----
VARIABLES
    pc,                  \* thread -> place in its code
    tasks_,              \* ThreadPool::tasks_, the queue (task ids)
    stop_flag_,          \* ThreadPool::stop_flag_
    queue_mutex_,        \* holder of ThreadPool::queue_mutex_
    condition_,          \* workers blocked in condition_.wait
    arg,                 \* thread -> the task it is submitting
    cur,                 \* worker -> the task it dequeued
    line_num,            \* worker -> line_num of its search_file call
    output_mutex,        \* holder of main's output_mutex
    output_mutex_alive,  \* main's output_mutex has not been destroyed
    matcher_alive,       \* main's matcher has been created, not destroyed
    out,                 \* what has been written to std::cout
    tree,                \* the entries recursive_directory_iterator yields
    options,             \* SearchOptions
    argv,                \* the command line
    hardware_concurrency,\* std::thread::hardware_concurrency()
    err,                 \* what has been written to std::cerr
    num_threads,         \* size of the pool (0: no pool)
    idx,                 \* entries walk_directory has consumed
    joined,              \* workers ~ThreadPool has joined
    exit_code,           \* return value of main (-1: still running)
    terminated,          \* std::terminate has been called
    matcher,             \* main's matcher: the fields of the object
    line,                \* the argument of the last call of matcher.match
    matched,             \* <<its return value>> (<<>>: no call yet)
    pending_at_stop,     \* history: tasks queued or executing when
                         \* ~ThreadPool began (-1: it has not begun)
    submitted,           \* history: tasks in the order submit pushed them
    dequeued,            \* history: tasks in the order the workers popped them
    started,             \* history: task -> the workers that called task(), in order
    finished             \* history: task -> number of returns of task()

vars == <<pc, tasks_, stop_flag_, queue_mutex_, condition_, arg, cur, line_num,
          output_mutex, output_mutex_alive, matcher_alive, out, tree, options,
          argv, hardware_concurrency, err, num_threads, idx, joined, exit_code,
          terminated, matcher, line, matched, pending_at_stop, submitted,
          dequeued, started, finished>>

Workers == 1..num_threads
Threads == 0..num_threads

\* Task ids: the task of entry i is i; the task a spawning task i submits is
\* Len(tree) + i.
Body(t) == IF t <= Len(tree) THEN tree[t] ELSE Child


\* ------------------------------------------------------------- Init ----
\* The state in which main() starts, for every command line and for a
\* directory with at most one entry.
MainTrees == {<<>>} \cup {<<e>> : e \in {DirEntry, LogFile, Locked, Thrower}}

MainInit ==
    /\ argv \in Argvs
    /\ hardware_concurrency \in {0, MaxHw}
    /\ tree \in MainTrees
    /\ pc = [t \in {Main} |-> "start"]
    /\ arg = [t \in {Main} |-> NoTask]
    /\ cur = [t \in {Main} |-> NoTask]
    /\ line_num = [t \in {Main} |-> 0]
    /\ options = NoOptions
    /\ num_threads = 0
    /\ matcher_alive = FALSE
    /\ matcher = NoMatcher
    /\ line = <<>>
    /\ matched = <<>>
    /\ output_mutex_alive = FALSE
    /\ tasks_ = <<>>
    /\ stop_flag_ = FALSE
    /\ queue_mutex_ = NoThread
    /\ condition_ = {}
    /\ output_mutex = NoThread
    /\ out = <<>>
    /\ err = <<>>
    /\ idx = 0
    /\ joined = 0
    /\ exit_code = -1
    /\ terminated = FALSE
    /\ pending_at_stop = -1
    /\ submitted = <<>>
    /\ dequeued = <<>>
    /\ started = [t \in 1..(2 * Len(tree)) |-> <<>>]
    /\ finished = [t \in 1..(2 * Len(tree)) |-> 0]

\* The state of main() right after `ThreadPool pool{num_threads};
\* std::mutex output_mutex;`, for a plain query: every worker is at the top
\* of its loop and walk_directory is about to start.
PoolBuilt(av, hw, tr) ==
    /\ argv = av
    /\ hardware_concurrency = hw
    /\ tree = tr
    /\ options = extract_arguments(av)
    /\ num_threads = get_threads_number(hw)
    /\ pc = [t \in 0..get_threads_number(hw) |-> IF t = Main THEN "walk" ELSE "lock"]
    /\ arg = [t \in 0..get_threads_number(hw) |-> NoTask]
    /\ cur = [t \in 0..get_threads_number(hw) |-> NoTask]
    /\ line_num = [t \in 0..get_threads_number(hw) |-> 0]
    /\ matcher_alive = TRUE
    /\ matcher = create_matcher(extract_arguments(av))
    /\ line = <<>>
    /\ matched = <<>>
    /\ output_mutex_alive = TRUE
    /\ tasks_ = <<>>
    /\ stop_flag_ = FALSE
    /\ queue_mutex_ = NoThread
    /\ condition_ = {}
    /\ output_mutex = NoThread
    /\ out = <<>>
    /\ err = <<>>
    /\ idx = 0
    /\ joined = 0
    /\ exit_code = -1
    /\ terminated = FALSE
    /\ pending_at_stop = -1
    /\ submitted = <<>>
    /\ dequeued = <<>>
    /\ started = [t \in 1..(2 * Len(tr)) |-> <<>>]
    /\ finished = [t \in 1..(2 * Len(tr)) |-> 0]

PlainArgvs == {<<"mb_grep", <<"a">>, "dir">> \o f : f \in {<<>>, <<ExtFlag>>}}

HwChoices == {0, MaxHw - 1, MaxHw}

Init ==
    \E av \in PlainArgvs, hw \in HwChoices, tr \in Trees : PoolBuilt(av, hw, tr)


\* Variables no action changes after Init.
input == <<tree, argv, hardware_concurrency>>
\* The state of main()'s prelude.
prelude == <<options, num_threads, err>>
\* The state of the pool's queue.
queue == <<tasks_, queue_mutex_, condition_, submitted>>
\* The state of the tasks' output.
sink == <<output_mutex, out, line_num>>
history == <<started, finished, pending_at_stop, dequeued>>
\* The last call of matcher.match.
probe == <<line, matched>>

\* ------------------------------------------------- main(): the prelude ----
\* argc < minimalArgCount: help(), return 1.
MainUsage ==
    /\ ~terminated
    /\ pc[Main] = "start"
    /\ Len(argv) < minimalArgCount
    /\ err' = Append(err, "usage")
    /\ exit_code' = 1
    /\ pc' = [pc EXCEPT ![Main] = "done"]
    /\ UNCHANGED <<input, probe, matcher, options, num_threads, queue, sink,
                   history, stop_flag_, arg, cur, output_mutex_alive,
                   matcher_alive, idx, joined, terminated>>

\* extract_arguments, then the look-alike check: warning, return 1.
MainWarn ==
    /\ ~terminated
    /\ pc[Main] = "start"
    /\ Len(argv) >= minimalArgCount
    /\ LET o == extract_arguments(argv)
       IN  /\ ~o.use_regex /\ contains_regex_chars(o.query)
           /\ options' = o
    /\ err' = Append(err, "warning")
    /\ exit_code' = 1
    /\ pc' = [pc EXCEPT ![Main] = "done"]
    /\ UNCHANGED <<input, probe, matcher, num_threads, queue, sink, history,
                   stop_flag_, arg, cur, output_mutex_alive, matcher_alive,
                   idx, joined, terminated>>

\* extract_arguments, the look-alike check passes.
MainArgs ==
    /\ ~terminated
    /\ pc[Main] = "start"
    /\ Len(argv) >= minimalArgCount
    /\ LET o == extract_arguments(argv)
       IN  /\ ~(~o.use_regex /\ contains_regex_chars(o.query))
           /\ options' = o
    /\ pc' = [pc EXCEPT ![Main] = "create_matcher"]
    /\ UNCHANGED <<input, probe, matcher, num_threads, err, queue, sink,
                   history, stop_flag_, arg, cur, output_mutex_alive,
                   matcher_alive, idx, joined, exit_code, terminated>>

\* create_matcher returns a RegexMatcher or a SubstringMatcher.
MainCreateMatcher ==
    /\ ~terminated
    /\ pc[Main] = "create_matcher"
    /\ options.use_regex => RegexConstructs(options.query)
    /\ matcher_alive' = TRUE
    /\ matcher' = create_matcher(options)
    /\ pc' = [pc EXCEPT ![Main] = "pool_ctor"]
    /\ UNCHANGED <<input, probe, prelude, queue, sink, history, stop_flag_,
                   arg, cur, output_mutex_alive, idx, joined, exit_code,
                   terminated>>

\* RegexMatcher's constructor throws std::regex_error: main's
\* catch (const std::exception&) prints it and control reaches `return 0`.
MainMatcherThrows ==
    /\ ~terminated
    /\ pc[Main] = "create_matcher"
    /\ options.use_regex /\ ~RegexConstructs(options.query)
    /\ err' = Append(err, "exception")
    /\ exit_code' = 0
    /\ pc' = [pc EXCEPT ![Main] = "done"]
    /\ UNCHANGED <<input, probe, matcher, options, num_threads, queue, sink,
                   history, stop_flag_, arg, cur, output_mutex_alive,
                   matcher_alive, idx, joined, terminated>>

\* get_threads_number(), ThreadPool pool{num_threads}, std::mutex
\* output_mutex: the constructor starts num_threads workers.
MainPoolCtor ==
    /\ ~terminated
    /\ pc[Main] = "pool_ctor"
    /\ LET n == get_threads_number(hardware_concurrency)
       IN  /\ num_threads' = n
           /\ pc' = [t \in 0..n |-> IF t = Main THEN "walk" ELSE "lock"]
           /\ arg' = [t \in 0..n |-> NoTask]
           /\ cur' = [t \in 0..n |-> NoTask]
           /\ line_num' = [t \in 0..n |-> 0]
    /\ output_mutex_alive' = TRUE
    /\ UNCHANGED <<input, probe, matcher, options, err, queue, output_mutex,
                   out, history, stop_flag_, matcher_alive, idx, joined,
                   exit_code, terminated>>

\* ------------------------------------------------ ThreadPool::submit ----
\* std::lock_guard lock{queue_mutex_};
SubmitLock(th) ==
    /\ ~terminated
    /\ pc[th] = "submit"
    /\ queue_mutex_ = NoThread
    /\ queue_mutex_' = th
    /\ pc' = [pc EXCEPT ![th] = "push"]
    /\ UNCHANGED <<input, probe, matcher, prelude, tasks_, condition_,
                   submitted, sink, history, stop_flag_, arg, cur,
                   output_mutex_alive, matcher_alive, idx, joined, exit_code,
                   terminated>>

\* tasks_.push(std::move(task)); the lock_guard goes out of scope.
SubmitPush(th) ==
    /\ ~terminated
    /\ pc[th] = "push"
    /\ queue_mutex_ = th
    /\ tasks_' = Append(tasks_, arg[th])
    /\ submitted' = Append(submitted, arg[th])
    /\ queue_mutex_' = NoThread
    /\ pc' = [pc EXCEPT ![th] = "notify"]
    /\ UNCHANGED <<input, probe, matcher, prelude, condition_, sink, history,
                   stop_flag_, arg, cur, output_mutex_alive, matcher_alive,
                   idx, joined, exit_code, terminated>>

\* condition_.notify_one(): one of the blocked workers, if there is one,
\* is woken; then submit returns, to walk_directory's loop or, called by a
\* task, to the end of that task.
SubmitNotify(th) ==
    /\ ~terminated
    /\ pc[th] = "notify"
    /\ LET back == IF th = Main THEN "walk" ELSE "lock"
       IN  IF condition_ = {}
           THEN /\ pc' = [pc EXCEPT ![th] = back]
                /\ UNCHANGED condition_
           ELSE \E w \in condition_ :
                /\ condition_' = condition_ \ {w}
                /\ pc' = [pc EXCEPT ![th] = back, ![w] = "relock"]
    /\ arg' = [arg EXCEPT ![th] = NoTask]
    /\ cur' = [cur EXCEPT ![th] = NoTask]
    /\ finished' = IF th = Main THEN finished
                   ELSE [finished EXCEPT ![cur[th]] = @ + 1]
    /\ UNCHANGED <<input, probe, matcher, prelude, tasks_, queue_mutex_,
                   submitted, sink, started, pending_at_stop, dequeued,
                   stop_flag_, output_mutex_alive, matcher_alive, idx, joined,
                   exit_code, terminated>>

\* ---------------------------------------------------- walk_directory ----
\* An entry that is not a regular file, is binary, or has another
\* extension than the one asked for: continue.
WalkSkip ==
    /\ ~terminated
    /\ pc[Main] = "walk"
    /\ idx < Len(tree)
    /\ ~Survives(tree[idx + 1], options.file_extension)
    /\ idx' = idx + 1
    /\ UNCHANGED <<input, probe, matcher, prelude, queue, sink, history, pc,
                   stop_flag_, arg, cur, output_mutex_alive, matcher_alive,
                   joined, exit_code, terminated>>

\* pool.submit([path, &matcher, &output_mtx] { search_file(...); });
WalkSubmit ==
    /\ ~terminated
    /\ pc[Main] = "walk"
    /\ idx < Len(tree)
    /\ Survives(tree[idx + 1], options.file_extension)
    /\ idx' = idx + 1
    /\ arg' = [arg EXCEPT ![Main] = idx + 1]
    /\ pc' = [pc EXCEPT ![Main] = "submit"]
    /\ UNCHANGED <<input, probe, matcher, prelude, queue, sink, history,
                   stop_flag_, cur, output_mutex_alive, matcher_alive, joined,
                   exit_code, terminated>>

\* The iterator is exhausted: walk_directory returns, and main's try block
\* ends.  Its objects are destroyed in reverse order of declaration:
\* output_mutex first.
WalkEnd ==
    /\ ~terminated
    /\ pc[Main] = "walk"
    /\ idx = Len(tree)
    /\ output_mutex_alive' = FALSE
    /\ pc' = [pc EXCEPT ![Main] = "dtor_stop"]
    /\ UNCHANGED <<input, probe, matcher, prelude, queue, sink, history,
                   stop_flag_, arg, cur, matcher_alive, idx, joined,
                   exit_code, terminated>>

\* ------------------------------------------ ThreadPool::~ThreadPool ----
\* stop_flag_ = true;  (queue_mutex_ is not taken)
DtorStop ==
    /\ ~terminated
    /\ pc[Main] = "dtor_stop"
    /\ stop_flag_' = TRUE
    /\ pending_at_stop' = Len(tasks_) + Cardinality({w \in Workers : cur[w] # NoTask})
    /\ pc' = [pc EXCEPT ![Main] = "dtor_notify"]
    /\ UNCHANGED <<input, probe, matcher, prelude, queue, sink, started,
                   finished, dequeued, arg, cur, output_mutex_alive,
                   matcher_alive, idx, joined, exit_code, terminated>>

\* condition_.notify_all(): every worker blocked at this moment is woken.
DtorNotify ==
    /\ ~terminated
    /\ pc[Main] = "dtor_notify"
    /\ condition_' = {}
    /\ pc' = [t \in DOMAIN pc |-> IF t = Main THEN "join"
                                  ELSE IF t \in condition_ THEN "relock" ELSE pc[t]]
    /\ UNCHANGED <<input, probe, matcher, prelude, tasks_, queue_mutex_,
                   submitted, sink, history, stop_flag_, arg, cur,
                   output_mutex_alive, matcher_alive, idx, joined, exit_code,
                   terminated>>

\* worker.join() for the next worker of workers_: returns once that worker
\* has left its loop.
DtorJoin ==
    /\ ~terminated
    /\ pc[Main] = "join"
    /\ joined < num_threads
    /\ pc[joined + 1] = "exited"
    /\ joined' = joined + 1
    /\ UNCHANGED <<input, probe, matcher, prelude, queue, sink, history, pc,
                   stop_flag_, arg, cur, output_mutex_alive, matcher_alive,
                   idx, exit_code, terminated>>

\* Every worker is joined: ~ThreadPool returns, the matcher is destroyed
\* and main returns 0.
MainReturn ==
    /\ ~terminated
    /\ pc[Main] = "join"
    /\ joined = num_threads
    /\ matcher_alive' = FALSE
    /\ matcher' = NoMatcher
    /\ exit_code' = 0
    /\ pc' = [pc EXCEPT ![Main] = "done"]
    /\ UNCHANGED <<input, probe, prelude, queue, sink, history, stop_flag_,
                   arg, cur, output_mutex_alive, idx, joined, terminated>>

\* ------------------------------------------------- the worker's loop ----
\* std::unique_lock lock{queue_mutex_};
WorkerLock(w) ==
    /\ ~terminated
    /\ pc[w] = "lock"
    /\ queue_mutex_ = NoThread
    /\ queue_mutex_' = w
    /\ pc' = [pc EXCEPT ![w] = "check"]
    /\ UNCHANGED <<input, probe, matcher, prelude, tasks_, condition_,
                   submitted, sink, history, stop_flag_, arg, cur,
                   output_mutex_alive, matcher_alive, idx, joined, exit_code,
                   terminated>>

\* condition_.wait(lock, pred) is `while (!pred()) wait(lock);`: the
\* predicate stop_flag_ || !tasks_.empty() is evaluated with the mutex held.
WorkerCheck(w) ==
    /\ ~terminated
    /\ pc[w] = "check"
    /\ queue_mutex_ = w
    /\ pc' = [pc EXCEPT ![w] = IF stop_flag_ \/ tasks_ # <<>> THEN "decide" ELSE "wait"]
    /\ UNCHANGED <<input, probe, matcher, prelude, queue, sink, history,
                   stop_flag_, arg, cur, output_mutex_alive, matcher_alive,
                   idx, joined, exit_code, terminated>>

\* wait(lock): releases the mutex and blocks on condition_, atomically.
WorkerWait(w) ==
    /\ ~terminated
    /\ pc[w] = "wait"
    /\ queue_mutex_ = w
    /\ queue_mutex_' = NoThread
    /\ condition_' = condition_ \cup {w}
    /\ pc' = [pc EXCEPT ![w] = "blocked"]
    /\ UNCHANGED <<input, probe, matcher, prelude, tasks_, submitted, sink,
                   history, stop_flag_, arg, cur, output_mutex_alive,
                   matcher_alive, idx, joined, exit_code, terminated>>

\* A spurious wakeup, which wait(lock) permits.
WorkerSpuriousWake(w) ==
    /\ ~terminated
    /\ pc[w] = "blocked"
    /\ w \in condition_
    /\ condition_' = condition_ \ {w}
    /\ pc' = [pc EXCEPT ![w] = "relock"]
    /\ UNCHANGED <<input, probe, matcher, prelude, tasks_, queue_mutex_,
                   submitted, sink, history, stop_flag_, arg, cur,
                   output_mutex_alive, matcher_alive, idx, joined, exit_code,
                   terminated>>

\* A woken worker takes the mutex again before wait(lock) returns.
WorkerRelock(w) ==
    /\ ~terminated
    /\ pc[w] = "relock"
    /\ queue_mutex_ = NoThread
    /\ queue_mutex_' = w
    /\ pc' = [pc EXCEPT ![w] = "check"]
    /\ UNCHANGED <<input, probe, matcher, prelude, tasks_, condition_,
                   submitted, sink, history, stop_flag_, arg, cur,
                   output_mutex_alive, matcher_alive, idx, joined, exit_code,
                   terminated>>

\* Mutant: a worker that finds the queue empty returns, not waiting for
\* stop_flag_.
WorkerExit_WhenIdle(w) ==
    /\ ~terminated
    /\ pc[w] \in {"check", "decide"}
    /\ queue_mutex_ = w
    /\ tasks_ = <<>>
    /\ queue_mutex_' = NoThread
    /\ pc' = [pc EXCEPT ![w] = "exited"]
    /\ UNCHANGED <<input, probe, matcher, prelude, tasks_, condition_,
                   submitted, sink, history, stop_flag_, arg, cur,
                   output_mutex_alive, matcher_alive, idx, joined, exit_code,
                   terminated>>

\* Mutant: `if (stop_flag_) return;`, the queue is not looked at.
WorkerExit_NoDrain(w) ==
    /\ ~terminated
    /\ pc[w] = "decide"
    /\ queue_mutex_ = w
    /\ stop_flag_
    /\ queue_mutex_' = NoThread
    /\ pc' = [pc EXCEPT ![w] = "exited"]
    /\ UNCHANGED <<input, probe, matcher, prelude, tasks_, condition_,
                   submitted, sink, history, stop_flag_, arg, cur,
                   output_mutex_alive, matcher_alive, idx, joined, exit_code,
                   terminated>>

\* if (stop_flag_ && tasks_.empty()) return;
WorkerExit(w) ==
    /\ ~terminated
    /\ pc[w] = "decide"
    /\ queue_mutex_ = w
    /\ stop_flag_ /\ tasks_ = <<>>
    /\ queue_mutex_' = NoThread
    /\ pc' = [pc EXCEPT ![w] = "exited"]
    /\ UNCHANGED <<input, probe, matcher, prelude, tasks_, condition_,
                   submitted, sink, history, stop_flag_, arg, cur,
                   output_mutex_alive, matcher_alive, idx, joined, exit_code,
                   terminated>>

\* Mutant: the task is taken from the front but never popped.
WorkerPop_NoPop(w) ==
    /\ ~terminated
    /\ pc[w] = "decide"
    /\ queue_mutex_ = w
    /\ tasks_ # <<>>
    /\ cur' = [cur EXCEPT ![w] = Head(tasks_)]
    /\ queue_mutex_' = NoThread
    /\ pc' = [pc EXCEPT ![w] = "exec"]
    /\ UNCHANGED <<input, probe, matcher, prelude, tasks_, condition_,
                   submitted, sink, history, stop_flag_, arg,
                   output_mutex_alive, matcher_alive, idx, joined, exit_code,
                   terminated>>

\* Mutant: the unique_lock lives until the end of the loop body, so the task
\* is executed with queue_mutex_ held.
WorkerPop_HoldLock(w) ==
    /\ ~terminated
    /\ pc[w] = "decide"
    /\ queue_mutex_ = w
    /\ tasks_ # <<>>
    /\ cur' = [cur EXCEPT ![w] = Head(tasks_)]
    /\ tasks_' = Tail(tasks_)
    /\ dequeued' = Append(dequeued, Head(tasks_))
    /\ pc' = [pc EXCEPT ![w] = "exec"]
    /\ UNCHANGED <<input, probe, matcher, prelude, queue_mutex_, condition_,
                   submitted, sink, started, finished, pending_at_stop,
                   stop_flag_, arg, output_mutex_alive, matcher_alive, idx,
                   joined, exit_code, terminated>>

\* Mutant: the task is taken from the back of the queue.
WorkerPop_Lifo(w) ==
    /\ ~terminated
    /\ pc[w] = "decide"
    /\ queue_mutex_ = w
    /\ tasks_ # <<>>
    /\ cur' = [cur EXCEPT ![w] = tasks_[Len(tasks_)]]
    /\ tasks_' = SubSeq(tasks_, 1, Len(tasks_) - 1)
    /\ dequeued' = Append(dequeued, tasks_[Len(tasks_)])
    /\ queue_mutex_' = NoThread
    /\ pc' = [pc EXCEPT ![w] = "exec"]
    /\ UNCHANGED <<input, probe, matcher, prelude, condition_, submitted,
                   sink, started, finished, pending_at_stop, stop_flag_, arg,
                   output_mutex_alive, matcher_alive, idx, joined, exit_code,
                   terminated>>

\* task = std::move(tasks_.front()); tasks_.pop(); the unique_lock goes out
\* of scope.
WorkerPop(w) ==
    /\ ~terminated
    /\ pc[w] = "decide"
    /\ queue_mutex_ = w
    /\ ~(stop_flag_ /\ tasks_ = <<>>)
    /\ tasks_ # <<>>
    /\ cur' = [cur EXCEPT ![w] = Head(tasks_)]
    /\ tasks_' = Tail(tasks_)
    /\ dequeued' = Append(dequeued, Head(tasks_))
    /\ queue_mutex_' = NoThread
    /\ pc' = [pc EXCEPT ![w] = "exec"]
    /\ UNCHANGED <<input, probe, matcher, prelude, condition_, submitted,
                   sink, started, finished, pending_at_stop, stop_flag_, arg,
                   output_mutex_alive, matcher_alive, idx, joined, exit_code,
                   terminated>>

\* ------------------------------------------------ task(): search_file ----
\* task() raises an exception: nothing in the worker's loop catches it, it
\* leaves the thread function and std::terminate ends the process.
TaskThrow(w) ==
    /\ ~terminated
    /\ pc[w] = "exec"
    /\ Body(cur[w]).throws
    /\ started' = [started EXCEPT ![cur[w]] = Append(@, w)]
    /\ terminated' = TRUE
    /\ pc' = [pc EXCEPT ![w] = "crashed"]
    /\ UNCHANGED <<input, probe, matcher, prelude, queue, sink, finished,
                   pending_at_stop, dequeued, stop_flag_, arg, cur,
                   output_mutex_alive, matcher_alive, idx, joined, exit_code>>

\* Mutant: a file that cannot be opened raises an exception (the stream
\* throws on failbit).
TaskOpenFail_Throws(w) ==
    /\ ~terminated
    /\ pc[w] = "exec"
    /\ ~Body(cur[w]).throws /\ ~Body(cur[w]).spawns
    /\ ~Body(cur[w]).openable
    /\ started' = [started EXCEPT ![cur[w]] = Append(@, w)]
    /\ terminated' = TRUE
    /\ pc' = [pc EXCEPT ![w] = "crashed"]
    /\ UNCHANGED <<input, probe, matcher, prelude, queue, sink, finished,
                   pending_at_stop, dequeued, stop_flag_, arg, cur,
                   output_mutex_alive, matcher_alive, idx, joined, exit_code>>

\* std::ifstream file{filePath}; if (!file) return;
TaskOpenFail(w) ==
    /\ ~terminated
    /\ pc[w] = "exec"
    /\ ~Body(cur[w]).throws /\ ~Body(cur[w]).spawns
    /\ ~Body(cur[w]).openable
    /\ started' = [started EXCEPT ![cur[w]] = Append(@, w)]
    /\ finished' = [finished EXCEPT ![cur[w]] = @ + 1]
    /\ cur' = [cur EXCEPT ![w] = NoTask]
    /\ pc' = [pc EXCEPT ![w] = "lock"]
    /\ UNCHANGED <<input, probe, matcher, prelude, queue, sink,
                   pending_at_stop, dequeued, stop_flag_, arg,
                   output_mutex_alive, matcher_alive, idx, joined, exit_code,
                   terminated>>

\* The file opens: size_t line_num = 0;
TaskOpen(w) ==
    /\ ~terminated
    /\ pc[w] = "exec"
    /\ ~Body(cur[w]).throws /\ ~Body(cur[w]).spawns
    /\ Body(cur[w]).openable
    /\ started' = [started EXCEPT ![cur[w]] = Append(@, w)]
    /\ line_num' = [line_num EXCEPT ![w] = 0]
    /\ pc' = [pc EXCEPT ![w] = "getline"]
    /\ UNCHANGED <<input, probe, matcher, prelude, queue, output_mutex, out,
                   finished, pending_at_stop, dequeued, stop_flag_, arg, cur,
                   output_mutex_alive, matcher_alive, idx, joined, exit_code,
                   terminated>>

\* A task that submits another task to the pool it runs in.
TaskSpawn(w) ==
    /\ ~terminated
    /\ pc[w] = "exec"
    /\ ~Body(cur[w]).throws /\ Body(cur[w]).spawns
    /\ started' = [started EXCEPT ![cur[w]] = Append(@, w)]
    /\ arg' = [arg EXCEPT ![w] = Len(tree) + cur[w]]
    /\ pc' = [pc EXCEPT ![w] = "submit"]
    /\ UNCHANGED <<input, probe, matcher, prelude, queue, sink, finished,
                   pending_at_stop, dequeued, stop_flag_, cur,
                   output_mutex_alive, matcher_alive, idx, joined, exit_code,
                   terminated>>

\* Mutant: every line read is written, matching or not.
ReadLine_NoTest(w) ==
    /\ ~terminated
    /\ pc[w] = "getline"
    /\ line_num[w] < Len(Body(cur[w]).lines)
    /\ line_num' = [line_num EXCEPT ![w] = @ + 1]
    /\ pc' = [pc EXCEPT ![w] = "lock_output"]
    /\ UNCHANGED <<input, probe, matcher, prelude, queue, output_mutex, out,
                   history, stop_flag_, arg, cur, output_mutex_alive,
                   matcher_alive, idx, joined, exit_code, terminated>>

\* while (std::getline(file, line)) { ++line_num; if (matcher.match(line))
ReadLine(w) ==
    /\ ~terminated
    /\ pc[w] = "getline"
    /\ line_num[w] < Len(Body(cur[w]).lines)
    /\ line_num' = [line_num EXCEPT ![w] = @ + 1]
    /\ pc' = [pc EXCEPT ![w] = IF Body(cur[w]).lines[line_num[w] + 1]
                               THEN "lock_output" ELSE "getline"]
    /\ UNCHANGED <<input, probe, matcher, prelude, queue, output_mutex, out,
                   history, stop_flag_, arg, cur, output_mutex_alive,
                   matcher_alive, idx, joined, exit_code, terminated>>

\* Mutant: the worker's thread ends with its task.
TaskEof_WorkerEnds(w) ==
    /\ ~terminated
    /\ pc[w] = "getline"
    /\ line_num[w] = Len(Body(cur[w]).lines)
    /\ finished' = [finished EXCEPT ![cur[w]] = @ + 1]
    /\ cur' = [cur EXCEPT ![w] = NoTask]
    /\ pc' = [pc EXCEPT ![w] = "exited"]
    /\ UNCHANGED <<input, probe, matcher, prelude, queue, sink, started,
                   pending_at_stop, dequeued, stop_flag_, arg,
                   output_mutex_alive, matcher_alive, idx, joined, exit_code,
                   terminated>>

\* getline reaches the end of the file: search_file and task() return.
TaskEof(w) ==
    /\ ~terminated
    /\ pc[w] = "getline"
    /\ line_num[w] = Len(Body(cur[w]).lines)
    /\ finished' = [finished EXCEPT ![cur[w]] = @ + 1]
    /\ cur' = [cur EXCEPT ![w] = NoTask]
    /\ pc' = [pc EXCEPT ![w] = "lock"]
    /\ UNCHANGED <<input, probe, matcher, prelude, queue, sink, started,
                   pending_at_stop, dequeued, stop_flag_, arg,
                   output_mutex_alive, matcher_alive, idx, joined, exit_code,
                   terminated>>

\* Mutant: the record is written without waiting for output_mutex.
LockOutput_NoWait(w) ==
    /\ ~terminated
    /\ pc[w] = "lock_output"
    /\ output_mutex' = w
    /\ pc' = [pc EXCEPT ![w] = "write"]
    /\ UNCHANGED <<input, probe, matcher, prelude, queue, out, line_num,
                   history, stop_flag_, arg, cur, output_mutex_alive,
                   matcher_alive, idx, joined, exit_code, terminated>>

\* std::lock_guard lock{output_mutex};
LockOutput(w) ==
    /\ ~terminated
    /\ pc[w] = "lock_output"
    /\ output_mutex = NoThread
    /\ output_mutex' = w
    /\ pc' = [pc EXCEPT ![w] = "write"]
    /\ UNCHANGED <<input, probe, matcher, prelude, queue, out, line_num,
                   history, stop_flag_, arg, cur, output_mutex_alive,
                   matcher_alive, idx, joined, exit_code, terminated>>

\* Locking output_mutex after main destroyed it is undefined: besides
\* behaving like a live mutex (LockOutput), lock() can fail with
\* std::system_error, which leaves the task like any other exception.
LockOutputDestroyed(w) ==
    /\ ~terminated
    /\ pc[w] = "lock_output"
    /\ ~output_mutex_alive
    /\ terminated' = TRUE
    /\ pc' = [pc EXCEPT ![w] = "crashed"]
    /\ UNCHANGED <<input, probe, matcher, prelude, queue, sink, history,
                   stop_flag_, arg, cur, output_mutex_alive, matcher_alive,
                   idx, joined, exit_code>>

\* std::cout << filePath << ":" << line_num << ": "
WriteHead(w) ==
    /\ ~terminated
    /\ pc[w] = "write"
    /\ out' = Append(out, [task |-> cur[w], line |-> line_num[w], part |-> "head"])
    /\ pc' = [pc EXCEPT ![w] = "write_tail"]
    /\ UNCHANGED <<input, probe, matcher, prelude, queue, output_mutex,
                   line_num, history, stop_flag_, arg, cur,
                   output_mutex_alive, matcher_alive, idx, joined, exit_code,
                   terminated>>

\* << line << std::endl; the lock_guard goes out of scope.
WriteTail(w) ==
    /\ ~terminated
    /\ pc[w] = "write_tail"
    /\ out' = Append(out, [task |-> cur[w], line |-> line_num[w], part |-> "tail"])
    /\ output_mutex' = IF output_mutex = w THEN NoThread ELSE output_mutex
    /\ pc' = [pc EXCEPT ![w] = "getline"]
    /\ UNCHANGED <<input, probe, matcher, prelude, queue, line_num, history,
                   stop_flag_, arg, cur, output_mutex_alive, matcher_alive,
                   idx, joined, exit_code, terminated>>

\* ------------------------------------------------------------- Next ----
WorkerStep(w) ==
    \/ WorkerLock(w) \/ WorkerCheck(w) \/ WorkerWait(w) \/ WorkerRelock(w)
    \/ WorkerExit(w) \/ WorkerPop(w)
    \/ TaskThrow(w) \/ TaskOpenFail(w) \/ TaskOpen(w)
    \/ ReadLine(w) \/ TaskEof(w)
    \/ LockOutput(w) \/ LockOutputDestroyed(w) \/ WriteHead(w) \/ WriteTail(w)

MainStep ==
    \/ WalkSkip \/ WalkSubmit \/ WalkEnd
    \/ DtorStop \/ DtorNotify \/ DtorJoin \/ MainReturn

Next ==
    \/ WalkSkip \/ WalkSubmit \/ WalkEnd
    \/ DtorStop \/ DtorNotify \/ DtorJoin \/ MainReturn
    \/ \E th \in Threads : SubmitLock(th)
    \/ \E th \in Threads : SubmitPush(th)
    \/ \E th \in Threads : SubmitNotify(th)
    \/ \E w \in Workers : WorkerLock(w)
    \/ \E w \in Workers : WorkerCheck(w)
    \/ \E w \in Workers : WorkerWait(w)
    \/ \E w \in Workers : WorkerSpuriousWake(w)
    \/ \E w \in Workers : WorkerRelock(w)
    \/ \E w \in Workers : WorkerExit(w)
    \/ \E w \in Workers : WorkerPop(w)
    \/ \E w \in Workers : TaskThrow(w)
    \/ \E w \in Workers : TaskOpenFail(w)
    \/ \E w \in Workers : TaskOpen(w)
    \/ \E w \in Workers : ReadLine(w)
    \/ \E w \in Workers : TaskEof(w)
    \/ \E w \in Workers : LockOutput(w)
    \/ \E w \in Workers : LockOutputDestroyed(w)
    \/ \E w \in Workers : WriteHead(w)
    \/ \E w \in Workers : WriteTail(w)

Spec == Init /\ [][Next]_vars

\* Fair scheduling: a thread that can take a step eventually takes one.  No
\* fairness is asked of spurious wakeups, which may never happen.
MaxThreads == get_threads_number(MaxHw)

ThreadStep(th) ==
    \/ th = Main /\ MainStep
    \/ SubmitLock(th) \/ SubmitPush(th) \/ SubmitNotify(th)
    \/ th \in Workers /\ WorkerStep(th)

Fairness == \A th \in 0..MaxThreads :
                WF_vars(th \in Threads /\ ThreadStep(th))

FairSpec == Spec /\ Fairness

\* The whole program, from the start of main().
MainNext ==
    \/ MainUsage \/ MainWarn \/ MainArgs
    \/ MainCreateMatcher \/ MainMatcherThrows \/ MainPoolCtor
    \/ Next

MainSpec == MainInit /\ [][MainNext]_vars

\* The matcher on its own: create_matcher builds a SubstringMatcher from the
\* options and match is called on a line.
MatchArgvs ==
    {<<"mb_grep", q, "dir">> \o f :
        q \in SeqsUpTo(MatchChars, MaxQueryLen), f \in {<<>>, <<IgnoreCaseFlag>>}}

MatchInit ==
    /\ argv \in MatchArgvs
    /\ line \in SeqsUpTo(MatchChars, MaxLineLen)
    /\ options = extract_arguments(argv)
    /\ hardware_concurrency = 0
    /\ tree = <<>>
    /\ pc = [t \in {Main} |-> "create_matcher"]
    /\ arg = [t \in {Main} |-> NoTask]
    /\ cur = [t \in {Main} |-> NoTask]
    /\ line_num = [t \in {Main} |-> 0]
    /\ num_threads = 0
    /\ matcher_alive = FALSE
    /\ matcher = NoMatcher
    /\ matched = <<>>
    /\ output_mutex_alive = FALSE
    /\ tasks_ = <<>>
    /\ stop_flag_ = FALSE
    /\ queue_mutex_ = NoThread
    /\ condition_ = {}
    /\ output_mutex = NoThread
    /\ out = <<>>
    /\ err = <<>>
    /\ idx = 0
    /\ joined = 0
    /\ exit_code = -1
    /\ terminated = FALSE
    /\ pending_at_stop = -1
    /\ submitted = <<>>
    /\ dequeued = <<>>
    /\ started = <<>>
    /\ finished = <<>>

\* if (matcher.match(line)): the call, on the matcher main has built.
MatchLine ==
    /\ ~terminated
    /\ matcher_alive
    /\ matcher.kind = "substring"
    /\ matched = <<>>
    /\ matched' = <<match(matcher, line)>>
    /\ UNCHANGED <<input, line, matcher, prelude, queue, sink, history, pc,
                   stop_flag_, arg, cur, output_mutex_alive, matcher_alive,
                   idx, joined, exit_code, terminated>>

MatchNext == MainCreateMatcher \/ MatchLine

MatchSpec == MatchInit /\ [][MatchNext]_vars

\* The construction of the pool on its own, for every value
\* std::thread::hardware_concurrency() can return.
ThreadsInit ==
    /\ argv \in PlainArgvs
    /\ hardware_concurrency \in 0..(SizeRange - 1)
    /\ options = extract_arguments(argv)
    /\ tree = <<>>
    /\ pc = [t \in {Main} |-> "pool_ctor"]
    /\ arg = [t \in {Main} |-> NoTask]
    /\ cur = [t \in {Main} |-> NoTask]
    /\ line_num = [t \in {Main} |-> 0]
    /\ num_threads = 0
    /\ matcher_alive = TRUE
    /\ matcher = create_matcher(options)
    /\ line = <<>>
    /\ matched = <<>>
    /\ output_mutex_alive = FALSE
    /\ tasks_ = <<>>
    /\ stop_flag_ = FALSE
    /\ queue_mutex_ = NoThread
    /\ condition_ = {}
    /\ output_mutex = NoThread
    /\ out = <<>>
    /\ err = <<>>
    /\ idx = 0
    /\ joined = 0
    /\ exit_code = -1
    /\ terminated = FALSE
    /\ pending_at_stop = -1
    /\ submitted = <<>>
    /\ dequeued = <<>>
    /\ started = <<>>
    /\ finished = <<>>

ThreadsSpec == ThreadsInit /\ [][MainPoolCtor]_vars

\* The pool under a client whose tasks may call submit.
PoolInit ==
    \E av \in PlainArgvs, hw \in HwChoices, tr \in PoolTrees : PoolBuilt(av, hw, tr)

PoolNext ==
    \/ Next
    \/ \E w \in Workers : TaskSpawn(w)

PoolSpec == PoolInit /\ [][PoolNext]_vars

\* ============================================================ claims ====
InQueue(t) == \E i \in 1..Len(tasks_) : tasks_[i] = t
Occurrences(q, t) == Cardinality({i \in 1..Len(q) : q[i] = t})
Executing == {w \in Workers : cur[w] # NoTask}
\* ~ThreadPool has returned.
DtorReturned == stop_flag_ /\ pc[Main] = "done"

\* C1: a task is executed only after submit has put it in the queue, no task
\* is executed more than once, and no task is held or executed by two
\* workers: every task submit pushed is in exactly one place, the queue (once)
\* or one worker's hands or already returned.
C1_ExecutedOnceAfterSubmit ==
    /\ \A t \in DOMAIN started :
        /\ Len(started[t]) <= 1
        /\ (started[t] # <<>> => t \in Range(submitted))
        /\ Occurrences(tasks_, t) + Cardinality({w \in Workers : cur[w] = t})
              + finished[t] = Occurrences(submitted, t)
        /\ Occurrences(submitted, t) <= 1
    /\ \A w1, w2 \in Workers : (cur[w1] # NoTask /\ cur[w1] = cur[w2]) => w1 = w2

\* Two tasks have been executed, by two different workers.
C1_Witness ==
    \E t1, t2 \in DOMAIN started :
        /\ t1 # t2
        /\ started[t1] # <<>> /\ started[t2] # <<>>
        /\ started[t1] # started[t2]

\* C2: when ~ThreadPool returns after having begun with tasks still queued
\* or executing, the queue is empty, no worker executes a task, every
\* worker has left its loop and every submitted task has been executed.
C2_ShutdownDrains ==
    DtorReturned =>
        /\ tasks_ = <<>>
        /\ Executing = {}
        /\ \A w \in Workers : pc[w] = "exited"
        /\ \A i \in 1..Len(submitted) :
              Len(started[submitted[i]]) = 1 /\ finished[submitted[i]] = 1

\* ~ThreadPool began with two tasks pending and has returned.
C2_Witness == DtorReturned /\ pending_at_stop = 2 /\ Len(submitted) = 2

\* C3: once ~ThreadPool has set stop_flag_ and called notify_all, every
\* worker eventually leaves its loop and ~ThreadPool eventually returns
\* (unless an exception has ended the process).
C3_ShutdownTerminates ==
    (pc[Main] = "join") ~> (DtorReturned \/ terminated)

\* lock() on the destroyed output_mutex has ended the process.
DestroyedMutexCrash ==
    \E w \in Workers : pc[w] = "crashed" /\ ~Body(cur[w]).throws

\* C4: every task that submit has put in the queue is eventually executed
\* (unless a lock() on the destroyed output_mutex has ended the process).
C4_SubmittedEventuallyExecuted ==
    \A t \in 1..MaxEntries :
        InQueue(t) ~> ((t \in DOMAIN started /\ started[t] # <<>>) \/ DestroyedMutexCrash)

\* C5: an exception raised by a task does not end the process: once a task
\* that throws has been executed, std::terminate has not been called.
C5_ExceptionContained ==
    \A t \in DOMAIN started :
        (Body(t).throws /\ started[t] # <<>>) => ~terminated

\* C6: at most one worker at a time is inside the section of search_file
\* that writes a record; a worker holds output_mutex exactly while it is in
\* that section (taken per record, released right after the write); and in
\* the output the two parts of a record are never separated by another
\* record's part.
Writing == {w \in Workers : pc[w] \in {"write", "write_tail"}}

C6_ConsoleExclusive ==
    /\ Cardinality(Writing) <= 1
    /\ \A w \in Workers : (w \in Writing) <=> (output_mutex = w)
    /\ \A i \in 1..Len(out) :
        /\ out[i].part = "head" =>
              IF i < Len(out)
              THEN out[i + 1] = [out[i] EXCEPT !.part = "tail"]
              ELSE \E w \in Workers : pc[w] = "write_tail" /\ cur[w] = out[i].task
        /\ out[i].part = "tail" =>
              (i > 1 /\ out[i - 1] = [out[i] EXCEPT !.part = "head"])

\* One worker is in the middle of a record while another one, with a
\* matching line of another file, waits for output_mutex.
C6_Witness ==
    \E w1, w2 \in Workers :
        /\ w1 # w2
        /\ pc[w1] = "write_tail"
        /\ pc[w2] = "lock_output"
        /\ out # <<>>

\* C7: once stop_flag_ has been set, a call to submit does not add a task to
\* the queue.
C7_NoSubmitAfterStop ==
    [][stop_flag_ => Len(tasks_') <= Len(tasks_)]_vars

\* What the command line says, read off argv itself.
QueryHasMeta == \E i \in 1..Len(argv[2]) : argv[2][i] \in MetaChars
RegexGiven == \E i \in 4..Len(argv) : argv[i] = RegexFlag
MainReturned == pc[Main] = "done"
NothingScheduled ==
    /\ num_threads = 0
    /\ DOMAIN pc = {Main}
    /\ idx = 0
    /\ submitted = <<>> /\ tasks_ = <<>>
    /\ out = <<>>

\* C8: a malformed pattern given with --regex aborts the run before the pool
\* is constructed and before any task is submitted, and main returns a
\* nonzero code.
C8_MalformedRegexFails ==
    (Len(argv) >= minimalArgCount /\ RegexGiven /\ ~RegexConstructs(argv[2])
        /\ MainReturned)
    => (NothingScheduled /\ exit_code # 0)

\* C9: a query with a regex metacharacter and no --regex: main prints the
\* warning and returns 1 having built no matcher and no pool, walked
\* nothing, submitted nothing and written nothing; with --regex the same
\* query gets no warning and, when the pattern compiles, main returns 0
\* after the pool has been built and shut down.
C9_LookAlikeWarning ==
    (Len(argv) >= minimalArgCount /\ QueryHasMeta) =>
        /\ ~RegexGiven =>
            /\ ~matcher_alive /\ NothingScheduled
            /\ \/ pc[Main] = "start" /\ exit_code = -1 /\ err = <<>>
               \/ MainReturned /\ exit_code = 1 /\ err = <<"warning">>
        /\ RegexGiven =>
            /\ "warning" \notin Range(err)
            /\ exit_code # 1
            /\ (MainReturned /\ RegexConstructs(argv[2]))
                  => (num_threads >= 1 /\ stop_flag_ /\ exit_code = 0)

\* `a+` without --regex: main has returned 1 after the warning.
C9_Witness ==
    /\ Len(argv) >= minimalArgCount
    /\ argv[2] = <<"a", "+">>
    /\ ~RegexGiven
    /\ MainReturned /\ exit_code = 1 /\ err = <<"warning">>

\* The entries walk_directory has dealt with: all it has consumed, except
\* the one whose task submit has not pushed yet.
Handled == IF pc[Main] \in {"submit", "push"} THEN idx - 1 ELSE idx

\* The indices 1..k, in order, of the entries of the tree that satisfy Test.
Select(k, Test(_)) == SelectSeq([i \in 1..k |-> i], LAMBDA i : Test(tree[i]))

ExtensionAsked(e) ==
    options.file_extension = NoExt \/ e.ext = options.file_extension
\* The first 512 bytes of the file contain a NUL byte.
NulInPrefix(e) == e.nul_pos >= 1 /\ e.nul_pos <= BufSize /\ e.nul_pos <= e.size

\* C10 as stated: exactly the regular files without a NUL byte in their
\* first 512 bytes and with the extension asked for are submitted, once
\* each, in discovery order.
C10_TextFilesSubmitted ==
    LET Eligible(e) == e.regular /\ ~NulInPrefix(e) /\ ExtensionAsked(e)
    IN  submitted = Select(Handled, Eligible)

\* C10 amended: a file that cannot be opened is read as empty by
\* is_binary_file, so it is submitted even when it holds a NUL byte; a
\* readable file with a NUL byte in its first 512 bytes is never submitted.
C10_ReadableBinarySkipped ==
    LET Eligible(e) == /\ e.regular
                       /\ ~(e.openable /\ NulInPrefix(e))
                       /\ ExtensionAsked(e)
    IN  /\ submitted = Select(Handled, Eligible)
        /\ \A i \in 1..Len(submitted) :
              ~(tree[submitted[i]].openable /\ NulInPrefix(tree[submitted[i]]))

\* The walk is over: a binary file with the extension asked for was passed
\* over and the text file after it was submitted.
C10_Witness ==
    /\ Len(tree) = 2 /\ idx = 2 /\ pc[Main] = "dtor_stop"
    /\ options.file_extension = ".log"
    /\ tree[1].openable /\ NulInPrefix(tree[1]) /\ tree[1].ext = ".log"
    /\ submitted = <<2>>

\* The records written so far, in the order of their last part.
Records == SelectSeq(out, LAMBDA r : r.part = "tail")

\* The records a run owes: one for every matching line of every file
\* walk_directory submits and search_file can read.
ExpectedRecords ==
    UNION {{<<t, l>> : l \in {k \in 1..Len(tree[t].lines) : tree[t].lines[k]}} :
             t \in {u \in 1..Len(tree) :
                     /\ Survives(tree[u], options.file_extension)
                     /\ tree[u].openable /\ ~tree[u].throws}}

\* The run is over: main has returned or the process has been ended.
RunOver == MainReturned \/ terminated

\* C11: for a given tree and command line every run, whatever the
\* interleaving and the number of workers, writes the same records: only
\* records the tree owes are written, the records of one file come in
\* ascending line order, and when the run is over every owed record has been
\* written exactly once.
C11_OutputDeterministic ==
    /\ \A i \in 1..Len(Records) : <<Records[i].task, Records[i].line>> \in ExpectedRecords
    /\ \A i, j \in 1..Len(Records) :
          (i < j /\ Records[i].task = Records[j].task) => Records[i].line < Records[j].line
    /\ RunOver => Len(Records) = Cardinality(ExpectedRecords)

\* ASCII lowercasing, as the claim means it.
AsciiLower(s) ==
    [i \in 1..Len(s) |-> IF s[i] = "A" THEN "a" ELSE IF s[i] = "B" THEN "b" ELSE s[i]]

\* C12: what a SubstringMatcher built with ignore_case answers for a line is
\* what a case-sensitive SubstringMatcher built from the lowered query
\* answers for the lowered line.
C12_CaseFoldConsistent ==
    (matched # <<>> /\ options.ignore_case) =>
        matched[1] = match(SubstringMatcher(AsciiLower(options.query), FALSE),
                           AsciiLower(line))

\* Query `aB` is found in line `AB<E9>` when case is ignored.
C12_Witness ==
    /\ options.ignore_case
    /\ options.query = <<"a", "B">>
    /\ line = <<"A", "B", "0xE9">>
    /\ matched = <<TRUE>>

\* C13: the pool is built with max(1, h - 2) workers, h being the value of
\* hardware_concurrency(), the difference taken in the integers; so with at
\* least one worker, also for h = 0, 1 and 2.
C13_ThreadsFloorOne ==
    pc[Main] = "walk" =>
        /\ num_threads = (IF hardware_concurrency - 2 >= 1
                          THEN hardware_concurrency - 2 ELSE 1)
        /\ num_threads >= 1
        /\ DOMAIN pc = 0..num_threads

\* hardware_concurrency() returned 0 and the pool has one worker.
C13_Witness ==
    /\ pc[Main] = "walk"
    /\ hardware_concurrency = 0
    /\ num_threads = 1

\* C14: the workers take the tasks off the queue in the order submit put
\* them there: the tasks popped so far, followed by the queue, are the
\* tasks pushed so far; and with one worker a task is executed only after
\* every task pushed before it has returned.
C14_QueueFifo ==
    /\ dequeued \o tasks_ = submitted
    /\ num_threads = 1 =>
          \A i, j \in 1..Len(submitted) :
              (i < j /\ started[submitted[j]] # <<>>) => finished[submitted[i]] = 1

\* Two workers have popped two tasks in submission order and the second
\* task has returned before the first.
C14_Witness ==
    /\ num_threads = 2
    /\ submitted = <<1, 2>> /\ dequeued = <<1, 2>>
    /\ finished[2] = 1 /\ finished[1] = 0

\* C15: a worker returns from its loop only in a step it takes holding
\* queue_mutex_ with stop_flag_ set and the queue empty, and stays out; a
\* worker past the wait that finds a task in the queue, stop_flag_ set or
\* not, pops the front task and goes on to execute it.
C15_ExitOnlyWhenDrained ==
    [][\A w \in Workers :
          /\ (pc[w] # "exited" /\ pc'[w] = "exited") =>
                (stop_flag_ /\ tasks_ = <<>> /\ queue_mutex_ = w)
          /\ pc[w] = "exited" => pc'[w] = "exited"
          /\ (pc[w] = "decide" /\ pc'[w] # "decide" /\ tasks_ # <<>>) =>
                (pc'[w] = "exec" /\ cur'[w] = Head(tasks_))]_vars

\* ~ThreadPool began while the only worker was busy and a task was queued;
\* the worker has popped that task with stop_flag_ set, and has returned.
C15_Witness ==
    /\ num_threads = 1
    /\ pending_at_stop = 2
    /\ Len(dequeued) = 2
    /\ pc[1] = "exited"

\* The line numbers of the records written for task t, in output order.
RecordLines(t) ==
    LET own == SelectSeq(Records, LAMBDA r : r.task = t)
    IN  [i \in 1..Len(own) |-> own[i].line]

\* The positions 1..n, in order, of the matching lines of task t's file.
MatchingUpTo(t, n) ==
    SelectSeq([i \in 1..n |-> i], LAMBDA i : Body(t).lines[i])

AtRecord(w) == pc[w] \in {"lock_output", "write", "write_tail"}

\* C16: in a search_file task line_num is the 1-based position of the line
\* last read; the task is at a record only for a matching line; the records
\* it has written carry, in order, exactly the positions of the matching
\* lines read before; a task that has returned has written one record per
\* matching line; and between records the task does not hold output_mutex.
C16_LineNumbersSequential ==
    /\ \A w \in Workers :
          pc[w] \in {"getline", "lock_output", "write", "write_tail"} =>
              /\ line_num[w] \in 0..Len(Body(cur[w]).lines)
              /\ AtRecord(w) => (line_num[w] >= 1 /\ Body(cur[w]).lines[line_num[w]])
              /\ RecordLines(cur[w]) =
                    MatchingUpTo(cur[w], IF AtRecord(w) THEN line_num[w] - 1
                                         ELSE line_num[w])
              /\ pc[w] \in {"getline", "lock_output"} => output_mutex # w
    /\ \A t \in 1..Len(tree) :
          (finished[t] = 1 /\ tree[t].openable) =>
              RecordLines(t) = MatchingUpTo(t, Len(tree[t].lines))

\* A file whose second line is the only matching one has been scanned: its
\* one record carries line number 2.
C16_Witness ==
    \E t \in 1..Len(tree) :
        /\ tree[t].lines = <<FALSE, TRUE>>
        /\ finished[t] = 1
        /\ RecordLines(t) = <<2>>

\* C17: the task of a file that cannot be opened returns at once: it writes
\* no part of a record, is never at the output lock, ends no process and
\* prints no error; and when ~ThreadPool has returned on a tree with such a
\* file, every other submitted task has returned with all its records.
C17_UnopenableSkipped ==
    /\ \A t \in 1..Len(tree) :
          ~tree[t].openable =>
              /\ \A i \in 1..Len(out) : out[i].task # t
              /\ \A w \in Workers : cur[w] = t => pc[w] = "exec"
              /\ started[t] # <<>> => finished[t] = 1
    /\ err = <<>>
    /\ (DtorReturned /\ \E u \in Range(submitted) : ~tree[u].openable) =>
          \A t \in Range(submitted) :
              /\ Len(started[t]) = 1 /\ finished[t] = 1
              /\ tree[t].openable => RecordLines(t) = MatchingUpTo(t, Len(tree[t].lines))

\* A text file and a file that cannot be opened were submitted; both tasks
\* have returned and the text file's two records are written.
C17_Witness ==
    /\ DtorReturned
    /\ \E t, u \in Range(submitted) :
          /\ ~tree[u].openable /\ finished[u] = 1
          /\ tree[t].openable /\ RecordLines(t) = <<1, 2>>

\* C18: the objects a task captures by reference are alive whenever the
\* task uses them: the matcher while a worker scans a file, and output_mutex
\* while a worker is about to lock it or holds it.
C18_CapturesOutliveTasks ==
    \A w \in Workers :
        /\ pc[w] \in {"getline", "lock_output", "write", "write_tail"} => matcher_alive
        /\ AtRecord(w) => output_mutex_alive

\* The places of the code that read or modify tasks_.
AtQueue(th) == pc[th] \in {"push", "check", "decide"}

\* Who holds which lock where: a thread at the queue holds queue_mutex_ and
\* the holder of queue_mutex_ is at the queue or about to wait; a worker
\* with a task in its hands does not hold queue_mutex_; no thread holds
\* both locks; a thread waiting for one lock does not hold the other; and
\* when main is in submit while every worker executes a task, queue_mutex_
\* is free for it.
LockPlaces ==
    /\ \A th \in Threads :
          /\ AtQueue(th) => queue_mutex_ = th
          /\ queue_mutex_ = th => (AtQueue(th) \/ pc[th] = "wait")
          /\ ~(queue_mutex_ = th /\ output_mutex = th)
          /\ pc[th] \in {"lock", "relock", "submit"} => output_mutex # th
          /\ pc[th] = "lock_output" => queue_mutex_ # th
    /\ \A w \in Workers : cur[w] # NoTask => queue_mutex_ # w
    /\ (pc[Main] = "submit" /\ \A w \in Workers : cur[w] # NoTask) =>
          queue_mutex_ = NoThread

\* C19: every step that changes the queue is taken by the thread that
\* holds queue_mutex_, and the locks are held as LockPlaces says before
\* and after every step.
C19_LockDiscipline ==
    [][/\ tasks_' # tasks_ =>
            (queue_mutex_ \in Threads /\ pc'[queue_mutex_] # pc[queue_mutex_])
       /\ LockPlaces
       /\ LockPlaces']_vars

\* The only worker is writing a record of the first task, holding
\* output_mutex, while main has pushed the second task and left submit.
C19_Witness ==
    /\ num_threads = 1
    /\ cur[1] = 1 /\ output_mutex = 1
    /\ tasks_ = <<2>>
    /\ pc[Main] = "walk"

\* The tasks in execution: task() has been called and has not returned.
Running == {t \in DOMAIN started : Len(started[t]) > finished[t]}

\* C20: the pool has exactly the num_threads workers main asked for, from
\* its construction on; a worker's thread ends only after stop_flag_ is set
\* (or with the whole process); at most num_threads tasks are in execution,
\* each in the hands of exactly one worker, and a worker has one task at
\* most in its hands.
C20_BoundedParallelism ==
    /\ num_threads = get_threads_number(hardware_concurrency)
    /\ DOMAIN pc = 0..num_threads
    /\ \A w \in Workers :
          /\ pc[w] = "exited" => stop_flag_
          /\ pc[w] = "crashed" => terminated
    /\ Cardinality(Running) <= num_threads
    /\ \A t \in Running :
          /\ Len(started[t]) = 1
          /\ {w \in Workers : cur[w] = t} = {started[t][1]}
    /\ \A t, u \in Running : started[t] = started[u] => t = u

\* The only worker executes the first task while the second one waits in
\* the queue.
C20_Witness ==
    /\ num_threads = 1
    /\ Running = {1}
    /\ tasks_ = <<2>>

====
